---- MODULE Spec2Model ----
(***************************************************************************)
(* Model of the OpenGL rasterizer surface cache of yuzu                    *)
(* (src/video_core/renderer_opengl/gl_rasterizer_cache.h).                 *)
(*                                                                         *)
(* SurfaceParams, SurfaceReserveKey, CachedSurface's flags and the inline  *)
(* members of RasterizerCacheOpenGL (RegisterReinterpretSurface,           *)
(* CollideOnReinterpretedSurface, Register, Unregister) are translated     *)
(* from the header.  The members the header only declares (GetSurface,     *)
(* RecreateSurface, GetUncachedSurface, ReserveSurface,                    *)
(* TryGetReservedSurface, LoadSurface, PartialReinterpretSurface,          *)
(* InitCacheParameters) are modelled from the design document.             *)
(***************************************************************************)
EXTENDS Integers, Sequences, FiniteSets, TLC

VARIABLES
    \* ---- descriptor comparison harness (SpecParams) ----
    pa,                     \* first SurfaceParams
    pb,                     \* second SurfaceParams
    cmp,                    \* result of the last comparison of pa and pb
    \* ---- the cache (Spec) ----
    surfaces,               \* every CachedSurface ever constructed, by id
    registered,             \* ids live in the address-indexed store
    surface_reserve,        \* SurfaceReserveKey -> id
    reinterpreted_surfaces, \* CacheAddr -> id (pointwise view of the interval map)
    last,                   \* what the last operation was asked and what it did
    last_stored,            \* SurfaceReserveKey -> id most recently stored under it
    calls,                  \* how many operations the cache has served
    \* ---- the draw-call bracket (SpecDraw) ----
    bound_targets,          \* the render targets the rasterizer has bound
    current_color_buffers,  \* colour targets of the draw call in progress
    current_depth_buffer,   \* depth target of the draw call in progress
    last_color_buffers,     \* colour targets of the previous draw call
    last_depth_buffer,      \* depth target of the previous draw call
    drawing,                \* a draw call is between its pre and post signal
    \* ---- descriptor geometry (SpecGeometry) ----
    geo,                    \* what the last geometry function of pa returned
    \* ---- texture views of cached surfaces (SpecView) ----
    view,                   \* the surfaces' GL textures and the last view asked for
    \* ---- the game list of the frontend (SpecScan, SpecWatch) ----
    workers,                \* every GameListWorker ever created, by id
    events,                 \* queued signals waiting in the GUI thread's event loop
    rows,                   \* the rows of item_model, by the worker that sent them
    watcher,                \* the directories the QFileSystemWatcher watches
    done,                   \* what the last DonePopulating was given and did
    tree_enabled            \* tree_view is enabled

paramVars == <<pa, pb, cmp>>
cacheVars == <<surfaces, registered, surface_reserve, reinterpreted_surfaces,
               last, last_stored, calls>>
drawVars == <<bound_targets, current_color_buffers, current_depth_buffer,
              last_color_buffers, last_depth_buffer, drawing>>
vars == <<pa, pb, cmp, surfaces, registered, surface_reserve,
          reinterpreted_surfaces, last, last_stored, calls,
          bound_targets, current_color_buffers, current_depth_buffer,
          last_color_buffers, last_depth_buffer, drawing, geo,
          view, workers, events, rows, watcher, done, tree_enabled>>
viewVars == <<view>>
listVars == <<workers, events, rows, watcher, done, tree_enabled>>

(***************************************************************************)
(* Bounds of the model.                                                    *)
(***************************************************************************)
\* how many fields the second descriptor may differ from the first in
MaxDiff == 2
\* how many CachedSurface objects may ever be constructed
MaxSurfaces == 3
\* how many operations the cache serves
MaxCalls == 4
\* Maxwell::NumRenderTargets, the colour targets a draw call can bind
NumRenderTargets == 2
\* how many GameListWorker objects may ever be created
MaxWorkers == 2
\* how many entries the scanned game directory has
NumEntries == 1

(***************************************************************************)
(* Maps (std::unordered_map, and the interval map seen address by address) *)
(***************************************************************************)
\* a map with no key
EmptyMap == [x \in {} |-> 0]

\* m with key k bound to v (std::unordered_map::operator[] assignment)
MapPut(m, k, v) == [x \in DOMAIN m \cup {k} |-> IF x = k THEN v ELSE m[x]]

\* m without the keys in ks
MapDel(m, ks) == [x \in DOMAIN m \ ks |-> m[x]]

\* the values of m
Ran(m) == {m[k] : k \in DOMAIN m}

(***************************************************************************)
(* SurfaceParams                                                           *)
(***************************************************************************)
\* enum class SurfaceClass
SurfaceClasses == {"Uploaded", "RenderTarget", "DepthBuffer", "Copy"}

\* VideoCore::Surface::SurfaceTarget, as enumerated by SurfaceTargetName
SurfaceTargets == {"Texture1D", "Texture2D", "Texture3D", "Texture1DArray",
                   "Texture2DArray", "TextureCubemap", "TextureCubeArray"}

\* the struct "rt" of SurfaceParams
RtFields == {"index", "array_mode", "volume", "layer_stride", "base_layer"}

\* rt = {}
RtZero == [index |-> 0, array_mode |-> 0, volume |-> 0, layer_stride |-> 0,
           base_layer |-> 0]

\* the data members of SurfaceParams
ParamFields == {"is_tiled", "block_width", "block_height", "block_depth",
                "tile_width_spacing", "pixel_format", "component_type", "type",
                "width", "height", "depth", "unaligned_height", "pitch",
                "target", "identity", "max_mip_level", "is_layered", "is_array",
                "srgb_conversion", "host_ptr", "gpu_addr", "size_in_bytes",
                "size_in_bytes_gl", "rt"}

\* the value a default-constructed SurfaceClass has (identity = {})
SurfaceClassZero == "Uploaded"

\* IsCompatibleSurface without the comparison of the block sizes of tiled surfaces
IsCompatibleSurface_NoBlockCheck(self, other) ==
    <<self.pixel_format, self.type, self.width, self.height, self.target,
      self.depth, self.is_tiled>> =
    <<other.pixel_format, other.type, other.width, other.height,
      other.target, other.depth, other.is_tiled>>

\* IsCompatibleSurface as equality of the whole descriptor
IsCompatibleSurface_WholeStruct(self, other) == self = other

\* bool IsCompatibleSurface(const SurfaceParams& other) const
IsCompatibleSurface(self, other) ==
    IF <<self.pixel_format, self.type, self.width, self.height, self.target,
         self.depth, self.is_tiled>> =
       <<other.pixel_format, other.type, other.width, other.height,
         other.target, other.depth, other.is_tiled>>
    THEN IF ~self.is_tiled
         THEN TRUE
         ELSE <<self.block_height, self.block_depth, self.tile_width_spacing>> =
              <<other.block_height, other.block_depth, other.tile_width_spacing>>
    ELSE FALSE

\* bool IsValid() const
IsValid(params) ==
    /\ params.gpu_addr # 0
    /\ params.host_ptr # 0
    /\ params.height # 0
    /\ params.width # 0

\* a name returned by a case of a switch, and one returned by its default
\* branch after LOG_CRITICAL and UNREACHABLE()
Named(name) == [name |-> name, fatal |-> FALSE]
Unimplemented(name) == [name |-> name, fatal |-> TRUE]

\* static std::string SurfaceTargetName(SurfaceTarget target)
SurfaceTargetName(target) ==
    CASE target = "Texture1D" -> Named("Texture1D")
      [] target = "Texture2D" -> Named("Texture2D")
      [] target = "Texture3D" -> Named("Texture3D")
      [] target = "Texture1DArray" -> Named("Texture1DArray")
      [] target = "Texture2DArray" -> Named("Texture2DArray")
      [] target = "TextureCubemap" -> Named("TextureCubemap")
      [] target = "TextureCubeArray" -> Named("TextureCubeArray")
      [] OTHER -> Unimplemented("TextureUnknown")

\* std::string TargetName() const
TargetName(params) ==
    CASE params.target = "Texture1D" -> Named("1D")
      [] params.target = "Texture2D" -> Named("2D")
      [] params.target = "Texture3D" -> Named("3D")
      [] params.target = "Texture1DArray" -> Named("1DArray")
      [] params.target = "Texture2DArray" -> Named("2DArray")
      [] params.target = "TextureCubemap" -> Named("Cube")
      [] OTHER -> Unimplemented("TUK")

\* std::string ClassName() const
ClassName(params) ==
    CASE params.identity = "Uploaded" -> Named("UP")
      [] params.identity = "RenderTarget" -> Named("RT")
      [] params.identity = "DepthBuffer" -> Named("DB")
      [] params.identity = "Copy" -> Named("CP")
      [] OTHER -> Unimplemented("CUK")

\* the width of u32
U32Bits == 32

\* std::max(1U, x)
Max(a, b) == IF a >= b THEN a ELSE b

\* x >> n for n below the width of x
RECURSIVE ShiftRightBy(_, _)
ShiftRightBy(x, n) ==
    IF n = 0 \/ x = 0 THEN x ELSE ShiftRightBy(x \div 2, n - 1)

\* the values a build gives the u32 expression x >> n.  A count of U32Bits or
\* more is undefined behaviour: the shift instruction either masks the count
\* to its low bits ("mask") or shifts every bit out ("zero")
ShiftRight(x, n, ub) ==
    IF n < U32Bits THEN ShiftRightBy(x, n)
    ELSE IF ub = "mask" THEN ShiftRightBy(x, n % U32Bits)
    ELSE 0

\* u32 MipWidth(u32 mip_level) const
MipWidth(params, mip_level, ub) ==
    Max(1, ShiftRight(params.width, mip_level, ub))

\* u32 MipHeight(u32 mip_level) const
MipHeight(params, mip_level, ub) ==
    Max(1, ShiftRight(params.height, mip_level, ub))

\* u32 MipDepth(u32 mip_level) const
MipDepth(params, mip_level, ub) ==
    IF params.is_layered
    THEN params.depth
    ELSE Max(1, ShiftRight(params.depth, mip_level, ub))

\* VideoCore::Surface::GetDefaultBlockHeight: the rows of a compression block,
\* 4 for the block-compressed format and 1 for the plain one
GetDefaultBlockHeight(pixel_format) == IF pixel_format = 2 THEN 4 ELSE 1

\* the candidate bh of the loop "while (bh > 1 && blocks_in_y <= bh * 4) bh >>= 1"
RECURSIVE HalveBlockHeight(_, _)
HalveBlockHeight(bh, blocks_in_y) ==
    IF bh > 1 /\ blocks_in_y <= bh * 4
    THEN HalveBlockHeight(bh \div 2, blocks_in_y)
    ELSE bh

\* MipBlockHeight whose search starts at 32
MipBlockHeight_From32(params, mip_level, ub) ==
    IF mip_level = 0
    THEN params.block_height
    ELSE LET alt_height == MipHeight(params, mip_level, ub)
             h == GetDefaultBlockHeight(params.pixel_format)
             blocks_in_y == (alt_height + h - 1) \div h
         IN  HalveBlockHeight(32, blocks_in_y)

\* u32 MipBlockHeight(u32 mip_level) const
MipBlockHeight(params, mip_level, ub) ==
    IF mip_level = 0
    THEN params.block_height
    ELSE LET alt_height == MipHeight(params, mip_level, ub)
             h == GetDefaultBlockHeight(params.pixel_format)
             blocks_in_y == (alt_height + h - 1) \div h
         IN  HalveBlockHeight(16, blocks_in_y)

\* the candidate bd of the loop "while (bd > 1 && mip_depth * 2 <= bd) bd >>= 1"
RECURSIVE HalveBlockDepth(_, _)
HalveBlockDepth(bd, mip_depth) ==
    IF bd > 1 /\ mip_depth * 2 <= bd
    THEN HalveBlockDepth(bd \div 2, mip_depth)
    ELSE bd

\* MipBlockDepth without the clamp to 16
MipBlockDepth_NoClamp(params, mip_level, ub) ==
    IF mip_level = 0 THEN params.block_depth
    ELSE IF params.is_layered THEN 1
    ELSE HalveBlockDepth(32, MipDepth(params, mip_level, ub))

\* u32 MipBlockDepth(u32 mip_level) const
MipBlockDepth(params, mip_level, ub) ==
    IF mip_level = 0 THEN params.block_depth
    ELSE IF params.is_layered THEN 1
    ELSE LET mip_depth == MipDepth(params, mip_level, ub)
             bd == HalveBlockDepth(32, mip_depth)
         IN  IF bd = 32 /\ MipBlockHeight(params, mip_level, ub) >= 4
             THEN 16
             ELSE bd

\* Common::AlignUp(value, size)
AlignUp(value, size) == ((value + size - 1) \div size) * size

\* VideoCore::Surface::GetCompressionFactor: 4 for the block-compressed format
\* (pixel format 2 of the model), 1 for the plain one (pixel format 1)
GetCompressionFactor(pixel_format) == IF pixel_format = 2 THEN 4 ELSE 1

\* VideoCore::Surface::GetBytesPerPixel: 8 bytes a block for the compressed
\* format, 4 bytes a pixel for the plain one
GetBytesPerPixel(pixel_format) == IF pixel_format = 2 THEN 8 ELSE 4

\* a u32 value is kept as its two 16-bit halves where it can reach 2^31
Word(x) == [hi |-> x \div 65536, lo |-> x % 65536]

\* the u32 product a * b, wrapped to 32 bits (a below 2^31, b below 2^15)
Mul32(a, b) ==
    LET low == (a % 65536) * b
    IN  [hi |-> ((a \div 65536) * b + low \div 65536) % 65536,
         lo |-> low % 65536]

\* the trailing zero bits of a value that is not 0
RECURSIVE TrailingZeroes(_)
TrailingZeroes(x) ==
    IF x % 2 = 1 THEN 0 ELSE 1 + TrailingZeroes(x \div 2)

\* Common::CountTrailingZeroes32: the trailing zero bits of a u32, all 32 of
\* them when the value is 0
CountTrailingZeroes32(value) ==
    IF value.lo # 0 THEN TrailingZeroes(value.lo)
    ELSE IF value.hi # 0 THEN 16 + TrailingZeroes(value.hi)
    ELSE U32Bits

\* the power of two 2^k as a u32, k below 32
PowerOfTwo(k) ==
    IF k < 16 THEN [hi |-> 0, lo |-> 2^k] ELSE [hi |-> 2^(k - 16), lo |-> 0]

\* the values a build gives the u32 expression 1U << n.  A count of U32Bits is
\* undefined behaviour: the count is masked ("mask") or every bit is shifted
\* out ("zero")
ShiftLeftOne(n, ub) ==
    IF n < U32Bits THEN PowerOfTwo(n)
    ELSE IF ub = "mask" THEN PowerOfTwo(n % U32Bits)
    ELSE Word(0)

\* u32 RowAlign(u32 mip_level) const; ub is what the shift in MipWidth does
\* with a count out of range, ub_left what the shift here does
RowAlign(params, mip_level, ub, ub_left) ==
    LET m_width == MipWidth(params, mip_level, ub)
        bytes_per_pixel == GetBytesPerPixel(params.pixel_format)
        l2 == CountTrailingZeroes32(Mul32(m_width, bytes_per_pixel))
    IN  ShiftLeftOne(l2, ub_left)

\* Tegra::Texture::CalculateSize: a tiled layout is made of whole blocks of
\* block_height GOBs of 64 bytes by 8 rows, block_depth slices deep; a linear
\* layout has no padding
CalculateSize(tiled, bytes_per_pixel, width, height, depth, block_height, block_depth) ==
    IF tiled
    THEN AlignUp(width * bytes_per_pixel, 64) * AlignUp(height, 8 * block_height)
            * AlignUp(depth, block_depth)
    ELSE width * height * depth * bytes_per_pixel

\* SizeInBytesRaw that always computes the linear size
SizeInBytesRaw_Linear(params, ignore_tiled) ==
    CalculateSize(FALSE, GetBytesPerPixel(params.pixel_format), params.width,
                  params.height, params.depth, params.block_height,
                  params.block_depth)
        \div (GetCompressionFactor(params.pixel_format)
                * GetCompressionFactor(params.pixel_format))

\* std::size_t SizeInBytesRaw(bool ignore_tiled = false) const
SizeInBytesRaw(params, ignore_tiled) ==
    LET compression_factor == GetCompressionFactor(params.pixel_format)
        bytes_per_pixel == GetBytesPerPixel(params.pixel_format)
        uncompressed_size ==
            CalculateSize(IF ignore_tiled THEN FALSE ELSE params.is_tiled,
                          bytes_per_pixel, params.width, params.height,
                          params.depth, params.block_height, params.block_depth)
    IN  uncompressed_size \div (compression_factor * compression_factor)

\* std::size_t SizeInBytesGL() const
SizeInBytesGL(params) == SizeInBytesRaw(params, TRUE)

\* Create that forgets to clear the render-target block
SurfaceReserveKey_Create_KeepRt(params) ==
    [params EXCEPT !.identity = SurfaceClassZero,
                   !.gpu_addr = 0]

\* static SurfaceReserveKey SurfaceReserveKey::Create(const SurfaceParams&)
SurfaceReserveKey_Create(params) ==
    [params EXCEPT !.identity = SurfaceClassZero,
                   !.gpu_addr = 0,
                   !.rt = RtZero]

(***************************************************************************)
(* Descriptor comparison harness: two descriptors, the second reached from *)
(* the first by changing up to MaxDiff data members, compared with         *)
(* IsCompatibleSurface and through their reserve keys.                     *)
(***************************************************************************)
BoolFields == {"is_tiled", "is_layered", "is_array", "srgb_conversion"}

\* the values a data member is drawn from
FieldDom(f) ==
    IF f \in BoolFields THEN BOOLEAN
    ELSE IF f = "target" THEN SurfaceTargets
    ELSE IF f = "identity" THEN SurfaceClasses
    ELSE 1..2

\* a linear (pitch) 2D colour texture
BaseLinear ==
    [is_tiled |-> FALSE, block_width |-> 1, block_height |-> 1,
     block_depth |-> 1, tile_width_spacing |-> 1, pixel_format |-> 1,
     component_type |-> 1, type |-> 1, width |-> 1, height |-> 1, depth |-> 1,
     unaligned_height |-> 1, pitch |-> 1, target |-> "Texture2D",
     identity |-> "Uploaded", max_mip_level |-> 1, is_layered |-> FALSE,
     is_array |-> FALSE, srgb_conversion |-> FALSE, host_ptr |-> 1,
     gpu_addr |-> 1, size_in_bytes |-> 1, size_in_bytes_gl |-> 1,
     rt |-> RtZero]

\* the same surface in block-linear (tiled) layout
BaseTiled == [BaseLinear EXCEPT !.is_tiled = TRUE]

\* "compatible" as the data model has it, with the surface type (member "type")
\* where the text says component type: every compared member equal, the block
\* sizes only when tiled
StatedCompatible(a, b) ==
    /\ a.pixel_format = b.pixel_format
    /\ a.type = b.type
    /\ a.width = b.width
    /\ a.height = b.height
    /\ a.target = b.target
    /\ a.depth = b.depth
    /\ a.is_tiled = b.is_tiled
    /\ (a.is_tiled /\ b.is_tiled) =>
          /\ a.block_height = b.block_height
          /\ a.block_depth = b.block_depth
          /\ a.tile_width_spacing = b.tile_width_spacing

\* the data members two descriptors differ in
DiffFields(a, b) == {f \in ParamFields : a[f] # b[f]}

NoCmp == [done |-> FALSE, compatible |-> FALSE, keys_equal |-> FALSE]

\* the cache as constructed: nothing cached, reserved or reinterpreted
NoCall ==
    [op |-> "none", params |-> BaseLinear, preserve |-> FALSE, surface |-> 0,
     path |-> "none", old |-> 0, copied_from |-> 0, found |-> 0,
     fits |-> FALSE, reserved |-> 0, repeat |-> FALSE, prev |-> 0,
     created |-> 0, removed |-> {}, collision |-> 0, reinterpret |-> "none",
     stale |-> FALSE, addr |-> 0]

\* no geometry function evaluated yet; a name is the string returned and
\* whether the LOG_CRITICAL / UNREACHABLE path was taken
NoName == [name |-> "", fatal |-> FALSE]

NoGeo ==
    [op |-> "none", mip_level |-> 0, ignore_tiled |-> FALSE,
     surface_target_name |-> NoName, target_name |-> NoName,
     class_name |-> NoName,
     mip_width |-> 0, mip_height |-> 0, mip_depth |-> 0,
     next_width |-> 0, next_height |-> 0, next_depth |-> 0,
     size |-> 0,
     mip_block_height |-> 0, mip_block_depth |-> 0,
     row_align |-> Word(0)]

\* no surface has a texture yet
NoView ==
    [entries |-> << >>, textures |-> EmptyMap,
     ret |-> [op |-> "none", entry |-> 0, as_array |-> FALSE, handle |-> 0,
              made |-> FALSE]]

\* no DonePopulating has run
NoDone == [op |-> "none", length |-> 0, first |-> 0, slices |-> << >>]

\* GameList as constructed: no worker, an empty model, nothing watched
ListInit ==
    /\ workers = << >>
    /\ events = << >>
    /\ rows = << >>
    /\ watcher = {}
    /\ done = NoDone
    /\ tree_enabled = TRUE

\* std::array<Surface, NumRenderTargets>{}: every slot nullptr (0)
NoColorBuffers == [i \in 1..NumRenderTargets |-> 0]

\* no target bound, no draw call made or in progress
DrawInit ==
    /\ bound_targets = [color |-> NoColorBuffers, depth |-> 0]
    /\ current_color_buffers = NoColorBuffers
    /\ current_depth_buffer = 0
    /\ last_color_buffers = NoColorBuffers
    /\ last_depth_buffer = 0
    /\ drawing = FALSE

CacheInit ==
    /\ DrawInit
    /\ geo = NoGeo
    /\ view = NoView
    /\ ListInit
    /\ surfaces = << >>
    /\ registered = {}
    /\ surface_reserve = EmptyMap
    /\ reinterpreted_surfaces = EmptyMap
    /\ last = NoCall
    /\ last_stored = EmptyMap
    /\ calls = 0

ParamsInit ==
    /\ pa \in {BaseLinear, BaseTiled}
    /\ pb = pa
    /\ cmp = NoCmp
    /\ CacheInit

\* a caller fills one data member of the second descriptor differently
ChangeField(f, v) ==
    /\ f # "rt"
    /\ v # pb[f]
    /\ pb' = [pb EXCEPT ![f] = v]
    /\ Cardinality(DiffFields(pa, pb')) <= MaxDiff
    /\ cmp' = NoCmp
    /\ UNCHANGED <<viewVars, listVars, geo, drawVars, pa, cacheVars>>

\* a caller fills one member of the render-target block differently
ChangeRtField(f, v) ==
    /\ v # pb.rt[f]
    /\ pb' = [pb EXCEPT !.rt[f] = v]
    /\ Cardinality(DiffFields(pa, pb')) <= MaxDiff
    /\ cmp' = NoCmp
    /\ UNCHANGED <<viewVars, listVars, geo, drawVars, pa, cacheVars>>

\* pa.IsCompatibleSurface(pb), and the comparison of the two reserve keys
Compare ==
    /\ ~cmp.done
    /\ cmp' = [done |-> TRUE,
               compatible |-> IsCompatibleSurface(pa, pb),
               keys_equal |-> SurfaceReserveKey_Create(pa) =
                              SurfaceReserveKey_Create(pb)]
    /\ UNCHANGED <<viewVars, listVars, geo, drawVars, pa, pb, cacheVars>>

ParamsNext ==
    \/ \E f \in ParamFields \ {"rt"} : \E v \in FieldDom(f) : ChangeField(f, v)
    \/ \E f \in RtFields : \E v \in 0..1 : ChangeRtField(f, v)
    \/ Compare

SpecParams == ParamsInit /\ [][ParamsNext]_vars

(***************************************************************************)
(* Descriptor geometry harness: one descriptor, its names, its mip         *)
(* dimensions and its byte sizes are evaluated.                            *)
(***************************************************************************)
\* a SurfaceTarget and a SurfaceClass can hold a value outside the enumerators
AllTargets == SurfaceTargets \cup {"OutOfRange"}
AllClasses == SurfaceClasses \cup {"OutOfRange"}

\* descriptors of every target and class
NamedParams ==
    {[BaseLinear EXCEPT !.target = t, !.identity = k] :
        t \in AllTargets, k \in AllClasses}

\* descriptors of several sizes, layouts and formats
SizedParams ==
    {[BaseLinear EXCEPT !.width = w, !.height = h, !.depth = d,
                        !.is_layered = l, !.is_tiled = t, !.pixel_format = f,
                        !.block_height = bh, !.block_depth = bd] :
        w \in {1, 3, 8}, h \in {1, 4}, d \in {1, 6}, l \in BOOLEAN,
        t \in BOOLEAN, f \in 1..2, bh \in 1..2, bd \in 1..2}

\* the mip levels asked for: the first ones, and the ones around the width of
\* a u32
MipLevels == {0, 1, 2, 3, U32Bits - 1, U32Bits, U32Bits + 1}

GeometryInit ==
    /\ pa \in NamedParams \cup SizedParams
    /\ pb = pa
    /\ cmp = NoCmp
    /\ CacheInit

\* IdentityString and the log messages name the target and the class
Describe ==
    /\ geo' = [NoGeo EXCEPT
                  !.op = "Describe",
                  !.surface_target_name = SurfaceTargetName(pa.target),
                  !.target_name = TargetName(pa),
                  !.class_name = ClassName(pa)]
    /\ UNCHANGED <<viewVars, listVars, paramVars, cacheVars, drawVars>>

\* the dimensions of a mip level and of the next one
MipDimensions(mip_level, ub) ==
    /\ geo' = [NoGeo EXCEPT
                  !.op = "MipDimensions",
                  !.mip_level = mip_level,
                  !.mip_width = MipWidth(pa, mip_level, ub),
                  !.mip_height = MipHeight(pa, mip_level, ub),
                  !.mip_depth = MipDepth(pa, mip_level, ub),
                  !.next_width = MipWidth(pa, mip_level + 1, ub),
                  !.next_height = MipHeight(pa, mip_level + 1, ub),
                  !.next_depth = MipDepth(pa, mip_level + 1, ub)]
    /\ UNCHANGED <<viewVars, listVars, paramVars, cacheVars, drawVars>>

\* the byte size in guest layout (ignore_tiled false) or as a GL texture
ByteSize(ignore_tiled) ==
    /\ geo' = [NoGeo EXCEPT
                  !.op = "ByteSize",
                  !.ignore_tiled = ignore_tiled,
                  !.size = SizeInBytesRaw(pa, ignore_tiled)]
    /\ UNCHANGED <<viewVars, listVars, paramVars, cacheVars, drawVars>>

GeometryNext ==
    \/ Describe
    \/ \E mip_level \in MipLevels : \E ub \in {"mask", "zero"} :
            MipDimensions(mip_level, ub)
    \/ \E ignore_tiled \in BOOLEAN : ByteSize(ignore_tiled)

SpecGeometry == GeometryInit /\ [][GeometryNext]_vars

(***************************************************************************)
(* Block sizes and row alignment of the mip levels of one descriptor.      *)
(***************************************************************************)
\* descriptors of several widths, heights, depths and formats, layered or not
BlockParams ==
    {[BaseTiled EXCEPT !.width = w, !.height = h, !.depth = d,
                       !.is_layered = l, !.pixel_format = f,
                       !.block_height = 2, !.block_depth = 4] :
        w \in {1, 6, 536870912, 1073741824},
        h \in {1, 9, 64, 130, 520},
        d \in {1, 6, 34, 40},
        l \in BOOLEAN, f \in 1..2}

BlockInit ==
    /\ pa \in BlockParams
    /\ pb = pa
    /\ cmp = NoCmp
    /\ CacheInit

\* the block height and block depth chosen for a mip level
BlockSizes(mip_level, ub) ==
    /\ geo' = [NoGeo EXCEPT
                  !.op = "BlockSizes",
                  !.mip_level = mip_level,
                  !.mip_height = MipHeight(pa, mip_level, ub),
                  !.mip_depth = MipDepth(pa, mip_level, ub),
                  !.mip_block_height = MipBlockHeight(pa, mip_level, ub),
                  !.mip_block_depth = MipBlockDepth(pa, mip_level, ub)]
    /\ UNCHANGED <<viewVars, listVars, paramVars, cacheVars, drawVars>>

\* the row alignment of a mip level
RowAlignment(mip_level, ub, ub_left) ==
    /\ geo' = [NoGeo EXCEPT
                  !.op = "RowAlign",
                  !.mip_level = mip_level,
                  !.mip_width = MipWidth(pa, mip_level, ub),
                  !.row_align = RowAlign(pa, mip_level, ub, ub_left)]
    /\ UNCHANGED <<viewVars, listVars, paramVars, cacheVars, drawVars>>

BlockNext ==
    \/ \E mip_level \in MipLevels : \E ub \in {"mask", "zero"} :
            BlockSizes(mip_level, ub)
    \/ \E mip_level \in MipLevels : \E ub \in {"mask", "zero"} :
         \E ub_left \in {"mask", "zero"} :
            RowAlignment(mip_level, ub, ub_left)

SpecBlocks == BlockInit /\ [][BlockNext]_vars

(***************************************************************************)
(* CachedSurface                                                           *)
(***************************************************************************)
\* explicit CachedSurface(const SurfaceParams& params): the flags start false
\* (the member initialisers), the address and size come from the descriptor; what
\* the texture and gl_buffer hold is opaque to the cache and is not modelled
NewSurface(params) ==
    [params |-> params,
     cache_addr |-> params.host_ptr,
     memory_size |-> params.size_in_bytes,
     reinterpreted |-> FALSE,
     must_reload |-> FALSE]

\* MarkReinterpreted that also drops the reload mark
MarkReinterpreted_ClearsReload(c, id) ==
    [c EXCEPT !.surfaces[id].reinterpreted = TRUE,
              !.surfaces[id].must_reload = FALSE]

\* void MarkReinterpreted()
MarkReinterpreted(c, id) ==
    [c EXCEPT !.surfaces[id].reinterpreted = TRUE]

\* void MarkForReload(bool reload)
MarkForReload(c, id, reload) ==
    [c EXCEPT !.surfaces[id].must_reload = reload]

\* bool IsReinterpreted() const
IsReinterpreted(c, id) == c.surfaces[id].reinterpreted

\* bool MustReload() const
MustReload(c, id) == c.surfaces[id].must_reload

(***************************************************************************)
(* RasterizerCacheOpenGL: the members the header defines.  A cache value c *)
(* is the record of the cache's data members.                              *)
(***************************************************************************)
\* an interval that starts at the surface's own address
GetReinterpretInterval_FromStart(object) ==
    {x \in object.cache_addr..(object.cache_addr + object.memory_size - 2) : TRUE}

\* SurfaceInterval::right_open(addr + 1, addr + memory_size - 1), as the set
\* of the addresses in it
GetReinterpretInterval(object) ==
    {x \in (object.cache_addr + 1)..(object.cache_addr + object.memory_size - 2) : TRUE}

\* RegisterReinterpretSurface that inserts the interval and leaves the flag
RegisterReinterpretSurface_NoMark(c, id) ==
    LET interval == GetReinterpretInterval(c.surfaces[id])
        old == c.reinterpreted_surfaces
    IN  [c EXCEPT !.reinterpreted_surfaces =
            [x \in DOMAIN old \cup interval |->
                IF x \in DOMAIN old THEN old[x] ELSE id]]

\* void RegisterReinterpretSurface(Surface): interval_map::insert binds only the
\* addresses that have no surface yet, then the surface is marked
RegisterReinterpretSurface(c, id) ==
    LET interval == GetReinterpretInterval(c.surfaces[id])
        old == c.reinterpreted_surfaces
        inserted == [x \in DOMAIN old \cup interval |->
                        IF x \in DOMAIN old THEN old[x] ELSE id]
    IN  MarkReinterpreted([c EXCEPT !.reinterpreted_surfaces = inserted], id)

\* Surface CollideOnReinterpretedSurface(CacheAddr addr) const; 0 is nullptr
CollideOnReinterpretedSurface(c, addr) ==
    IF addr \in DOMAIN c.reinterpreted_surfaces
    THEN c.reinterpreted_surfaces[addr]
    ELSE 0

\* Register that does not reach the base cache
Register_Nothing(c, id) == c

\* void Register(const Surface&): RasterizerCache<Surface>::Register
Register(c, id) ==
    [c EXCEPT !.registered = @ \cup {id}]

\* Unregister that erases the interval and forgets the store
Unregister_KeepsInStore(c, id) ==
    IF IsReinterpreted(c, id)
    THEN [c EXCEPT !.reinterpreted_surfaces =
                MapDel(@, GetReinterpretInterval(c.surfaces[id]))]
    ELSE c

\* Unregister that leaves the tracker as it is
Unregister_KeepsInterval(c, id) ==
    [c EXCEPT !.registered = @ \ {id}]

\* Unregister that also clears the reinterpreted flag
Unregister_ClearsFlag(c, id) ==
    LET c1 == IF IsReinterpreted(c, id)
              THEN [c EXCEPT !.reinterpreted_surfaces =
                        MapDel(@, GetReinterpretInterval(c.surfaces[id])),
                             !.surfaces[id].reinterpreted = FALSE]
              ELSE c
    IN  [c1 EXCEPT !.registered = @ \ {id}]

\* void Unregister(const Surface&): erase the surface's interval when it is
\* flagged reinterpreted, then RasterizerCache<Surface>::Unregister
Unregister(c, id) ==
    LET c1 == IF IsReinterpreted(c, id)
              THEN [c EXCEPT !.reinterpreted_surfaces =
                        MapDel(@, GetReinterpretInterval(c.surfaces[id]))]
              ELSE c
    IN  [c1 EXCEPT !.registered = @ \ {id}]

\* RasterizerCache<Surface>::TryGet(addr): the registered surface at addr, 0 if none
TryGet(c, addr) ==
    LET at == {id \in c.registered : c.surfaces[id].cache_addr = addr}
    IN  IF at = {} THEN 0 ELSE CHOOSE id \in at : \A o \in at : id <= o

(***************************************************************************)
(* RasterizerCacheOpenGL: the members the header only declares, after the  *)
(* design document (sections 3, 4.3, 4.5 and 7).  Each returns the new     *)
(* cache value, with the surface it resolved where it resolves one.        *)
(***************************************************************************)
\* void LoadSurface(const Surface&): LoadGLBuffer and UploadGLTexture; the
\* orchestrator clears MustReload after the reload
LoadSurface(c, id) ==
    MarkForReload(c, id, FALSE)

\* a failure that marks every entry for reload
GuestAccessFailure_MarksAll(c, id) ==
    [c EXCEPT !.surfaces =
        [x \in DOMAIN c.surfaces |->
            [c.surfaces[x] EXCEPT !.must_reload = TRUE]]]

\* LoadGLBuffer / FlushGLBuffer of an entry whose guest range is unmapped: the
\* entry's contents are unspecified and the orchestrator marks it for reload
GuestAccessFailure(c, id) ==
    MarkForReload(c, id, TRUE)

\* Store that keeps the entry already in the pool (std::unordered_map::insert)
ReserveSurface_KeepsOld(c, id) ==
    LET key == SurfaceReserveKey_Create(c.surfaces[id].params)
    IN  IF key \in DOMAIN c.surface_reserve
        THEN c
        ELSE [c EXCEPT !.surface_reserve = MapPut(@, key, id)]

\* void ReserveSurface(const Surface&): Store; the new entry replaces an entry
\* already held under the key
ReserveSurface(c, id) ==
    LET key == SurfaceReserveKey_Create(c.surfaces[id].params)
    IN  [c EXCEPT !.surface_reserve = MapPut(@, key, id)]

\* TryTake that leaves the entry in the pool
TryGetReservedSurface_NoRemove(c, params) ==
    LET key == SurfaceReserveKey_Create(params)
    IN  IF key \in DOMAIN c.surface_reserve
        THEN [c |-> c, surface |-> c.surface_reserve[key]]
        ELSE [c |-> c, surface |-> 0]

\* Surface TryGetReservedSurface(const SurfaceParams&): TryTake; on a hit the
\* entry leaves the pool
TryGetReservedSurface(c, params) ==
    LET key == SurfaceReserveKey_Create(params)
    IN  IF key \in DOMAIN c.surface_reserve
        THEN [c |-> [c EXCEPT !.surface_reserve = MapDel(@, {key})],
              surface |-> c.surface_reserve[key]]
        ELSE [c |-> c, surface |-> 0]

\* a reserved surface is given the requested descriptor and address
AssignParams(c, id, params) ==
    [c EXCEPT !.surfaces[id].params = params,
              !.surfaces[id].cache_addr = params.host_ptr,
              !.surfaces[id].memory_size = params.size_in_bytes]

\* GetUncachedSurface that never looks into the pool
GetUncachedSurface_AlwaysNew(c, params) ==
    [c |-> [c EXCEPT !.surfaces = Append(@, NewSurface(params))],
     surface |-> Len(c.surfaces) + 1,
     from_reserve |-> FALSE]

\* Surface GetUncachedSurface(const SurfaceParams&): "gets an uncached surface,
\* creating it if need be": a reserved one when the pool has one, else a new one
GetUncachedSurface(c, params) ==
    LET t == TryGetReservedSurface(c, params)
    IN  IF t.surface # 0
        THEN [c |-> AssignParams(t.c, t.surface, params),
              surface |-> t.surface,
              from_reserve |-> TRUE]
        ELSE [c |-> [c EXCEPT !.surfaces = Append(@, NewSurface(params))],
              surface |-> Len(c.surfaces) + 1,
              from_reserve |-> FALSE]

\* Surface RecreateSurface(const Surface& old, const SurfaceParams& new_params):
\* a new entry with the new descriptor; the old contents are copied into it
\* (a backend copy, opaque to the cache) when they are to be preserved
RecreateSurface(c, old, new_params, preserve_contents) ==
    LET g == GetUncachedSurface(c, new_params)
    IN  [c |-> g.c, surface |-> g.surface, from_reserve |-> g.from_reserve,
         copied_from |-> IF preserve_contents THEN old ELSE 0]

\* bool PartialReinterpretSurface(Surface triggering_surface, Surface intersect):
\* on success the overlap is copied into the triggering surface, which is
\* registered with the tracker; on failure nothing changes
PartialReinterpretSurface(c, triggering_surface, intersect, succeeds) ==
    IF succeeds
    THEN RegisterReinterpretSurface(c, triggering_surface)
    ELSE c

\* a GetSurface that hands the entry back without asking the tracker
ReconcileCollision_Never(c, id, succeeds) ==
    [c |-> c, collision |-> 0, reinterpret |-> "none"]

\* the collision check GetSurface ends with: the tracker is asked for the
\* entry's address; an entry found there (another one) is reconciled with the
\* resolved entry by PartialReinterpretSurface, and when that fails the caller
\* falls back to the entry as it is
ReconcileCollision(c, id, succeeds) ==
    LET collision == CollideOnReinterpretedSurface(c, c.surfaces[id].cache_addr)
    IN  IF collision # 0 /\ collision # id
        THEN [c |-> PartialReinterpretSurface(c, id, collision, succeeds),
              collision |-> collision,
              reinterpret |-> IF succeeds THEN "success" ELSE "failure"]
        ELSE [c |-> c, collision |-> collision, reinterpret |-> "none"]

\* what GetSurface returns: the cache, the entry, the path taken, the entry
\* replaced, the entry copied from, and what the collision check (k) did
Resolved(k, surface, path, old, copied_from) ==
    [c |-> k.c, surface |-> surface, path |-> path, old |-> old,
     copied_from |-> copied_from, collision |-> k.collision,
     reinterpret |-> k.reinterpret]

\* Surface GetSurface(const SurfaceParams& params, bool preserve_contents)
GetSurface(c, params, preserve_contents, succeeds) ==
    IF ~IsValid(params)
    THEN [c |-> c, surface |-> 0, path |-> "invalid", old |-> 0,
          copied_from |-> 0, collision |-> 0, reinterpret |-> "none"]
    ELSE
    LET found == TryGet(c, params.host_ptr)
    IN  IF found # 0 /\ IsCompatibleSurface(c.surfaces[found].params, params)
        THEN LET c1 == IF MustReload(c, found) THEN LoadSurface(c, found) ELSE c
             IN  Resolved(ReconcileCollision(c1, found, succeeds),
                          found, "hit", 0, 0)
        ELSE IF found # 0
        THEN LET r == RecreateSurface(c, found, params, preserve_contents)
                 c1 == ReserveSurface(Unregister(r.c, found), found)
                 c2 == Register(c1, r.surface)
             IN  Resolved(ReconcileCollision(c2, r.surface, succeeds),
                          r.surface, "recreate", found, r.copied_from)
        ELSE LET t == TryGetReservedSurface(c, params)
             IN  IF t.surface # 0
                 THEN LET c1 == Register(AssignParams(t.c, t.surface, params),
                                         t.surface)
                          c2 == IF preserve_contents
                                THEN LoadSurface(c1, t.surface) ELSE c1
                      IN  Resolved(ReconcileCollision(c2, t.surface, succeeds),
                                   t.surface, "reserve", 0, 0)
                 ELSE LET id == Len(c.surfaces) + 1
                          c1 == Register(
                                  [c EXCEPT !.surfaces = Append(@, NewSurface(params))],
                                  id)
                          c2 == IF preserve_contents
                                THEN LoadSurface(c1, id) ELSE c1
                      IN  Resolved(ReconcileCollision(c2, id, succeeds),
                                   id, "fresh", 0, 0)

\* a lookup that also finds entries that have left the store
TryFindFramebufferSurface_AnyEntry(c, host_ptr) ==
    LET at == {id \in 1..Len(c.surfaces) :
                  /\ host_ptr >= c.surfaces[id].cache_addr
                  /\ host_ptr < c.surfaces[id].cache_addr
                                   + c.surfaces[id].memory_size}
    IN  [c |-> c,
         surface |-> IF at = {} THEN 0
                     ELSE CHOOSE id \in at : \A o \in at : id <= o]

\* Surface TryFindFramebufferSurface(const u8* host_ptr) const: the registered
\* entry whose range contains the address, 0 (nullptr) when there is none; the
\* cache is not changed
TryFindFramebufferSurface(c, host_ptr) ==
    LET at == {id \in c.registered :
                  /\ host_ptr >= c.surfaces[id].cache_addr
                  /\ host_ptr < c.surfaces[id].cache_addr
                                   + c.surfaces[id].memory_size}
    IN  [c |-> c,
         surface |-> IF at = {} THEN 0
                     ELSE CHOOSE id \in at : \A o \in at : id <= o]

(***************************************************************************)
(* The cache as a state machine.                                           *)
(***************************************************************************)
\* a tiled render target of block height 2
ShapeTiled2 ==
    [BaseTiled EXCEPT !.width = 2, !.height = 2, !.block_height = 2,
                      !.identity = "RenderTarget"]

\* the same surface with block height 1, uploaded: incompatible with ShapeTiled2
ShapeTiled1 ==
    [BaseTiled EXCEPT !.width = 2, !.height = 2, !.block_height = 1]

Shapes == {ShapeTiled2, ShapeTiled1}

\* the (gpu_addr, host_ptr) pairs the memory manager maps
Mappings == {<<1, 1>>, <<2, 1>>, <<2, 2>>}

\* void InitCacheParameters(GPUVAddr): the addresses and the byte size
InitCacheParameters(shape, mapping) ==
    [shape EXCEPT !.gpu_addr = mapping[1],
                  !.host_ptr = mapping[2],
                  !.size_in_bytes = shape.width * shape.height * shape.depth,
                  !.size_in_bytes_gl = shape.width * shape.height * shape.depth]

\* a descriptor of an unmapped address: its host pointer is null
InvalidRequest == InitCacheParameters(ShapeTiled1, <<3, 0>>)

\* the descriptors callers ask for
Requests ==
    {InitCacheParameters(s, m) : s \in Shapes, m \in Mappings}
        \cup {InvalidRequest}

\* the cache's data members as one value
Cur ==
    [surfaces |-> surfaces,
     registered |-> registered,
     surface_reserve |-> surface_reserve,
     reinterpreted_surfaces |-> reinterpreted_surfaces]

\* one more operation served, while the model's budget of operations lasts
Served ==
    /\ calls < MaxCalls
    /\ calls' = calls + 1

Commit(c) ==
    /\ surfaces' = c.surfaces
    /\ registered' = c.registered
    /\ surface_reserve' = c.surface_reserve
    /\ reinterpreted_surfaces' = c.reinterpreted_surfaces

\* what an operation other than GetSurface leaves in "last"
Did(op, surface, old, path, c) ==
    [NoCall EXCEPT !.op = op, !.surface = surface, !.old = old,
                   !.path = path,
                   !.created = Len(c.surfaces) - Len(surfaces),
                   !.removed = registered \ c.registered]

\* the address range [cache_addr, cache_addr + memory_size) of a surface
Range(surface) ==
    surface.cache_addr..(surface.cache_addr + surface.memory_size - 1)

\* a caller asks for a surface; "last" keeps the request, what the store and
\* the pool held for it when it was made, and what the call did
GetSurfaceCall(params, preserve_contents, succeeds) ==
    LET r == GetSurface(Cur, params, preserve_contents, succeeds)
        found == TryGet(Cur, params.host_ptr)
        key == SurfaceReserveKey_Create(params)
    IN  /\ Len(r.c.surfaces) <= MaxSurfaces
        /\ Commit(r.c)
        /\ last' = [op |-> "GetSurface",
                    params |-> params,
                    preserve |-> preserve_contents,
                    surface |-> r.surface,
                    path |-> r.path,
                    old |-> r.old,
                    copied_from |-> r.copied_from,
                    found |-> found,
                    fits |-> /\ found # 0
                             /\ StatedCompatible(surfaces[found].params, params),
                    reserved |-> IF key \in DOMAIN surface_reserve
                                 THEN surface_reserve[key] ELSE 0,
                    repeat |-> /\ last.op = "GetSurface"
                               /\ last.surface # 0
                               /\ last.params.host_ptr = params.host_ptr
                               /\ StatedCompatible(last.params, params),
                    prev |-> IF last.op = "GetSurface" THEN last.surface ELSE 0,
                    created |-> Len(r.c.surfaces) - Len(surfaces),
                    removed |-> registered \ r.c.registered,
                    collision |-> r.collision,
                    reinterpret |-> r.reinterpret,
                    stale |-> /\ found # 0
                              /\ surfaces[found].must_reload,
                    addr |-> params.host_ptr]
        /\ Served
        /\ UNCHANGED <<viewVars, listVars, geo, drawVars, paramVars, last_stored>>

\* the orchestrator evicts a live entry: it leaves the store for the pool
EvictSurface(id) ==
    LET c == ReserveSurface(Unregister(Cur, id), id)
    IN  /\ id \in registered
        /\ Commit(c)
        /\ last' = Did("Evict", id, id, "evict", c)
        /\ Served
        /\ UNCHANGED <<viewVars, listVars, geo, drawVars, paramVars, last_stored>>

\* the base cache unregisters a live entry (an invalidated region); "last"
\* keeps the entry the operation before registered with the tracker
UnregisterCall(id) ==
    LET c == Unregister(Cur, id)
    IN  /\ id \in registered
        /\ Commit(c)
        /\ last' = [Did("Unregister", id, id, "unregister", c) EXCEPT
                      !.prev = IF last.reinterpret = "success"
                               THEN last.surface ELSE 0]
        /\ Served
        /\ UNCHANGED <<viewVars, listVars, geo, drawVars, paramVars, last_stored>>

\* a copy finds two live entries that overlap in part and reinterprets one
PartialReinterpretCall(triggering_surface, intersect, succeeds) ==
    LET c == PartialReinterpretSurface(Cur, triggering_surface, intersect,
                                       succeeds)
    IN  /\ triggering_surface \in registered
        /\ intersect \in registered
        /\ triggering_surface # intersect
        /\ Range(surfaces[triggering_surface]) \cap Range(surfaces[intersect]) # {}
        /\ Commit(c)
        /\ last' = [Did("PartialReinterpret", triggering_surface, intersect,
                         IF succeeds THEN "reinterpreted" ELSE "failed", c)
                      EXCEPT !.collision = intersect,
                             !.reinterpret = IF succeeds THEN "success"
                                             ELSE "failure"]
        /\ Served
        /\ UNCHANGED <<viewVars, listVars, geo, drawVars, paramVars, last_stored>>

\* a load or a flush of a live entry finds its guest memory unmapped
GuestAccessFailureCall(id) ==
    LET c == GuestAccessFailure(Cur, id)
    IN  /\ id \in registered
        /\ Commit(c)
        /\ last' = Did("GuestAccessFailure", id, 0, "failed", c)
        /\ Served
        /\ UNCHANGED <<viewVars, listVars, geo, drawVars, paramVars, last_stored>>

\* the host addresses a framebuffer is looked up at
FramebufferAddrs == {2, 5, 6}

\* the renderer looks for the surface that holds a framebuffer
TryFindFramebufferCall(host_ptr) ==
    LET r == TryFindFramebufferSurface(Cur, host_ptr)
    IN  /\ Commit(r.c)
        /\ last' = [Did("TryFindFramebuffer", r.surface, 0, "lookup", r.c)
                      EXCEPT !.addr = host_ptr]
        /\ Served
        /\ UNCHANGED <<viewVars, listVars, geo, drawVars, paramVars, last_stored>>

Init ==
    /\ pa = BaseLinear
    /\ pb = BaseLinear
    /\ cmp = NoCmp
    /\ CacheInit

Next ==
    \/ \E params \in Requests : \E preserve_contents \in BOOLEAN :
         \E succeeds \in BOOLEAN :
            GetSurfaceCall(params, preserve_contents, succeeds)
    \/ \E id \in registered : EvictSurface(id)
    \/ \E id \in registered : UnregisterCall(id)
    \/ \E t \in registered : \E i \in registered : \E succeeds \in BOOLEAN :
            PartialReinterpretCall(t, i, succeeds)

Spec == Init /\ [][Next]_vars

(***************************************************************************)
(* Reloading and lookups: the cache with guest memory that may be unmapped *)
(* under a load or a flush.  Entries are requested at two addresses,       *)
(* evicted, reinterpreted and looked up by address, and their loads and    *)
(* flushes may fail.                                                       *)
(***************************************************************************)
\* the descriptors asked for: two incompatible ones at one address, and one
\* at another address
ReloadRequests ==
    {InitCacheParameters(ShapeTiled2, <<1, 1>>),
     InitCacheParameters(ShapeTiled1, <<1, 1>>),
     InitCacheParameters(ShapeTiled2, <<2, 2>>)}

ReloadNext ==
    \/ \E params \in ReloadRequests : \E preserve_contents \in BOOLEAN :
         \E succeeds \in BOOLEAN :
            GetSurfaceCall(params, preserve_contents, succeeds)
    \/ \E id \in registered : EvictSurface(id)
    \/ \E t \in registered : \E i \in registered : \E succeeds \in BOOLEAN :
            PartialReinterpretCall(t, i, succeeds)
    \/ \E id \in registered : GuestAccessFailureCall(id)
    \/ \E host_ptr \in FramebufferAddrs : TryFindFramebufferCall(host_ptr)

SpecReload == Init /\ [][ReloadNext]_vars

(***************************************************************************)
(* The Reinterpretation Tracker: the cache from a state with two live      *)
(* entries whose ranges overlap, [1,5) and [2,6).  Entries are requested,  *)
(* reinterpreted, evicted and unregistered in any order.                   *)
(***************************************************************************)
\* a tiled surface of one row of two bytes: its reinterpretation interval is
\* empty
ShapeRow ==
    [BaseTiled EXCEPT !.width = 2, !.height = 1]

\* the descriptors of the two entries live at the start
TrackerLive ==
    <<InitCacheParameters(ShapeTiled2, <<1, 1>>),
      InitCacheParameters(ShapeTiled2, <<2, 2>>)>>

\* the descriptors asked for: the first live entry's, one incompatible with it
\* at its address, its shape at another address, and a two-byte surface
TrackerRequests ==
    {InitCacheParameters(ShapeTiled2, <<1, 1>>),
     InitCacheParameters(ShapeTiled1, <<1, 1>>),
     InitCacheParameters(ShapeTiled2, <<3, 3>>),
     InitCacheParameters(ShapeRow, <<3, 3>>)}

TrackerStart ==
    /\ pa = BaseLinear
    /\ pb = BaseLinear
    /\ cmp = NoCmp
    /\ surfaces = [i \in 1..2 |-> NewSurface(TrackerLive[i])]
    /\ registered = {1, 2}
    /\ surface_reserve = EmptyMap
    /\ reinterpreted_surfaces = EmptyMap
    /\ last = NoCall
    /\ last_stored = EmptyMap
    /\ calls = 0
    /\ DrawInit
    /\ geo = NoGeo
    /\ view = NoView
    /\ ListInit

TrackerNext ==
    \/ \E params \in TrackerRequests : \E preserve_contents \in BOOLEAN :
         \E succeeds \in BOOLEAN :
            GetSurfaceCall(params, preserve_contents, succeeds)
    \/ \E id \in registered : EvictSurface(id)
    \/ \E id \in registered : UnregisterCall(id)
    \/ \E t \in registered : \E i \in registered : \E succeeds \in BOOLEAN :
            PartialReinterpretCall(t, i, succeeds)

SpecTracker == TrackerStart /\ [][TrackerNext]_vars

(***************************************************************************)
(* The Reserve Pool on its own: retired surfaces, none of them live, are   *)
(* stored and taken in any order.                                          *)
(***************************************************************************)
\* the descriptors of the retired surfaces: the first two differ in gpu_addr
\* only and share a reserve key
RetiredRequests ==
    {InitCacheParameters(ShapeTiled2, <<1, 1>>),
     InitCacheParameters(ShapeTiled2, <<2, 1>>),
     InitCacheParameters(ShapeTiled1, <<2, 2>>)}

ReserveInit ==
    /\ pa = BaseLinear
    /\ pb = BaseLinear
    /\ cmp = NoCmp
    /\ surfaces \in [1..MaxSurfaces -> {NewSurface(p) : p \in RetiredRequests}]
    /\ registered = {}
    /\ surface_reserve = EmptyMap
    /\ reinterpreted_surfaces = EmptyMap
    /\ last = NoCall
    /\ last_stored = EmptyMap
    /\ calls = 0
    /\ DrawInit
    /\ geo = NoGeo
    /\ view = NoView
    /\ ListInit

\* Store(entry): ReserveSurface of a retired surface; "last" keeps the entry
\* the pool held under its key before
StoreCall(id) ==
    LET key == SurfaceReserveKey_Create(surfaces[id].params)
        c == ReserveSurface(Cur, id)
    IN  /\ Commit(c)
        /\ last_stored' = MapPut(last_stored, key, id)
        /\ last' = [NoCall EXCEPT
                      !.op = "Store", !.surface = id,
                      !.params = surfaces[id].params,
                      !.old = IF key \in DOMAIN surface_reserve
                              THEN surface_reserve[key] ELSE 0]
        /\ UNCHANGED <<viewVars, listVars, geo, drawVars, paramVars, calls>>

\* TryTake(descriptor): TryGetReservedSurface; "last" keeps whether the
\* operation before was a TryTake that hit under the same key
TryTakeCall(params) ==
    LET key == SurfaceReserveKey_Create(params)
        t == TryGetReservedSurface(Cur, params)
    IN  /\ Commit(t.c)
        /\ last' = [NoCall EXCEPT
                      !.op = "TryTake", !.surface = t.surface,
                      !.params = params,
                      !.reserved = IF key \in DOMAIN surface_reserve
                                   THEN surface_reserve[key] ELSE 0,
                      !.repeat = /\ last.op = "TryTake"
                                 /\ last.surface # 0
                                 /\ SurfaceReserveKey_Create(last.params) = key,
                      !.prev = IF last.op = "TryTake" THEN last.surface ELSE 0]
        /\ UNCHANGED <<viewVars, listVars, geo, drawVars, paramVars, last_stored, calls>>

ReserveNext ==
    \/ \E id \in 1..MaxSurfaces : StoreCall(id)
    \/ \E params \in Requests \ {InvalidRequest} : TryTakeCall(params)

SpecReserve == ReserveInit /\ [][ReserveNext]_vars

(***************************************************************************)
(* The draw-call bracket: the rasterizer binds the colour and depth        *)
(* surfaces it resolved, signals the cache before the draw and after it.   *)
(***************************************************************************)
\* the draw-call slots of the cache as one value
CurDraw ==
    [current_color_buffers |-> current_color_buffers,
     current_depth_buffer |-> current_depth_buffer,
     last_color_buffers |-> last_color_buffers,
     last_depth_buffer |-> last_depth_buffer]

CommitDraw(d) ==
    /\ current_color_buffers' = d.current_color_buffers
    /\ current_depth_buffer' = d.current_depth_buffer
    /\ last_color_buffers' = d.last_color_buffers
    /\ last_depth_buffer' = d.last_depth_buffer

\* void SignalPreDrawCall(): snapshot the bound targets into the current slots
SignalPreDrawCall(d, targets) ==
    [d EXCEPT !.current_color_buffers = targets.color,
              !.current_depth_buffer = targets.depth]

\* a post-call that rotates the colour slots and forgets the depth slot
SignalPostDrawCall_ColorOnly(d) ==
    [d EXCEPT !.last_color_buffers = d.current_color_buffers]

\* void SignalPostDrawCall(): rotate the current slots into the last slots
SignalPostDrawCall(d) ==
    [d EXCEPT !.last_color_buffers = d.current_color_buffers,
              !.last_depth_buffer = d.current_depth_buffer]

\* the surfaces a draw call binds: two live entries, 0 for no target
DrawSurfaces == 0..2

\* the store after two colour buffers were resolved at two addresses
DrawStart ==
    /\ pa = BaseLinear
    /\ pb = BaseLinear
    /\ cmp = NoCmp
    /\ surfaces = <<NewSurface(InitCacheParameters(ShapeTiled2, <<1, 1>>)),
                    NewSurface(InitCacheParameters(ShapeTiled2, <<2, 2>>))>>
    /\ registered = {1, 2}
    /\ surface_reserve = EmptyMap
    /\ reinterpreted_surfaces = EmptyMap
    /\ last = NoCall
    /\ last_stored = EmptyMap
    /\ calls = 0
    /\ DrawInit
    /\ geo = NoGeo
    /\ view = NoView
    /\ ListInit

\* the rasterizer binds the surface GetColorBufferSurface(index) gave it
BindColorBuffer(index, surface) ==
    /\ ~drawing
    /\ bound_targets.color[index] # surface
    /\ bound_targets' = [bound_targets EXCEPT !.color[index] = surface]
    /\ UNCHANGED <<viewVars, listVars, paramVars, geo, cacheVars, current_color_buffers,
                   current_depth_buffer, last_color_buffers,
                   last_depth_buffer, drawing>>

\* the rasterizer binds the surface GetDepthBufferSurface gave it
BindDepthBuffer(surface) ==
    /\ ~drawing
    /\ bound_targets.depth # surface
    /\ bound_targets' = [bound_targets EXCEPT !.depth = surface]
    /\ UNCHANGED <<viewVars, listVars, paramVars, geo, cacheVars, current_color_buffers,
                   current_depth_buffer, last_color_buffers,
                   last_depth_buffer, drawing>>

\* the rasterizer is about to draw
PreDraw ==
    /\ ~drawing
    /\ CommitDraw(SignalPreDrawCall(CurDraw, bound_targets))
    /\ drawing' = TRUE
    /\ UNCHANGED <<viewVars, listVars, paramVars, geo, cacheVars, bound_targets>>

\* the rasterizer has drawn
PostDraw ==
    /\ drawing
    /\ CommitDraw(SignalPostDrawCall(CurDraw))
    /\ drawing' = FALSE
    /\ UNCHANGED <<viewVars, listVars, paramVars, geo, cacheVars, bound_targets>>

DrawNext ==
    \/ \E index \in 1..NumRenderTargets : \E surface \in DrawSurfaces :
            BindColorBuffer(index, surface)
    \/ \E surface \in DrawSurfaces : BindDepthBuffer(surface)
    \/ PreDraw
    \/ PostDraw

SpecDraw == DrawStart /\ [][DrawNext]_vars

(***************************************************************************)
(* The GL textures of cached surfaces and the views asked of them.  A      *)
(* value v holds the surfaces (entries), the texture objects the GL        *)
(* context has (textures: handle -> the texture whose storage it uses) and *)
(* what the last call returned (ret, with "made": the call created a       *)
(* texture object).  In an entry, "mismatched" and "views_made" record the *)
(* history of the calls made on it.                                        *)
(***************************************************************************)
\* glGenTextures / glCreateTextures: a name the context does not use
NewHandle(v) ==
    CHOOSE h \in 1..(Cardinality(DOMAIN v.textures) + 1) :
        h \notin DOMAIN v.textures

\* explicit CachedSurface(const SurfaceParams&): the primary texture is
\* created with storage of its own; discrepant_view is an empty OGLTexture
ConstructSurface(v, is_array) ==
    LET h == NewHandle(v)
    IN  [v EXCEPT !.entries = Append(@, [is_array |-> is_array,
                                         texture |-> h,
                                         discrepant_view |-> 0,
                                         alive |-> TRUE,
                                         mismatched |-> FALSE,
                                         views_made |-> 0]),
                  !.textures = MapPut(@, h, h)]

\* EnsureTextureDiscrepantView that makes a new view on every call
EnsureTextureDiscrepantView_Always(v, e) ==
    LET h == NewHandle(v)
    IN  [v EXCEPT !.entries[e].discrepant_view = h,
                  !.entries[e].views_made = @ + 1,
                  !.textures = MapPut(@, h, v.textures[v.entries[e].texture])]

\* void EnsureTextureDiscrepantView(): the view is created once, as a texture
\* view over the storage of the primary texture
EnsureTextureDiscrepantView(v, e) ==
    IF v.entries[e].discrepant_view # 0
    THEN v
    ELSE LET h == NewHandle(v)
         IN  [v EXCEPT !.entries[e].discrepant_view = h,
                       !.entries[e].views_made = @ + 1,
                       !.textures = MapPut(@, h, v.textures[v.entries[e].texture])]

\* const OGLTexture& Texture(bool as_array)
Texture(v, e, as_array) ==
    IF v.entries[e].is_array = as_array
    THEN [v |-> v, handle |-> v.entries[e].texture]
    ELSE LET v1 == EnsureTextureDiscrepantView(v, e)
         IN  [v |-> [v1 EXCEPT !.entries[e].mismatched = TRUE],
              handle |-> v1.entries[e].discrepant_view]

\* ~CachedSurface(): the OGLTexture members release their textures
DestroySurface(v, e) ==
    [v EXCEPT !.entries[e].alive = FALSE,
              !.entries[e].texture = 0,
              !.entries[e].discrepant_view = 0,
              !.textures = MapDel(@, {v.entries[e].texture,
                                      v.entries[e].discrepant_view})]

ViewInit ==
    /\ pa = BaseLinear
    /\ pb = BaseLinear
    /\ cmp = NoCmp
    /\ CacheInit

\* a surface is constructed, layered (an array texture) or not
ConstructCall(is_array) ==
    /\ Len(view.entries) < MaxSurfaces
    /\ view' = [ConstructSurface(view, is_array) EXCEPT
                  !.ret = [op |-> "Construct", entry |-> Len(view.entries) + 1,
                           as_array |-> is_array, handle |-> 0,
                           made |-> FALSE]]
    /\ UNCHANGED <<listVars, paramVars, geo, cacheVars, drawVars>>

\* a caller binds a surface as an array texture or as a plain one
TextureCall(e, as_array) ==
    LET r == Texture(view, e, as_array)
    IN  /\ view.entries[e].alive
        /\ view' = [r.v EXCEPT
                      !.ret = [op |-> "Texture", entry |-> e,
                               as_array |-> as_array, handle |-> r.handle,
                               made |-> r.v.textures # view.textures]]
        /\ UNCHANGED <<listVars, paramVars, geo, cacheVars, drawVars>>

\* the last reference to a surface is dropped
DestroyCall(e) ==
    /\ view.entries[e].alive
    /\ view' = [DestroySurface(view, e) EXCEPT
                  !.ret = [op |-> "Destroy", entry |-> e,
                           as_array |-> FALSE, handle |-> 0, made |-> FALSE]]
    /\ UNCHANGED <<listVars, paramVars, geo, cacheVars, drawVars>>

ViewNext ==
    \/ \E is_array \in BOOLEAN : ConstructCall(is_array)
    \/ \E e \in 1..Len(view.entries) : \E as_array \in BOOLEAN :
            TextureCall(e, as_array)
    \/ \E e \in 1..Len(view.entries) : DestroyCall(e)

SpecView == ViewInit /\ [][ViewNext]_vars

(***************************************************************************)
(* The game list of the frontend (src/yuzu/game_list.cpp): GameList in the *)
(* GUI thread and its GameListWorker objects in the thread pool.  A worker *)
(* is a record of its members (stop_processing, watch_list), of its        *)
(* position in run() (pc, index), of whether its signals are still         *)
(* connected to the GameList, and of what it did after Cancel reached it   *)
(* (cancelled, processed_after_cancel, sent_after_cancel).  Paths are      *)
(* numbers.                                                                *)
(***************************************************************************)
\* constexpr int LIMIT_WATCH_DIRECTORIES
LIMIT_WATCH_DIRECTORIES == 5000

\* constexpr int SLICE_SIZE
SLICE_SIZE == 25

\* std::min
Min(a, b) == IF a <= b THEN a ELSE b

\* QStringList::mid(pos, length): length elements from position pos (counted
\* from 0), or all the remaining ones when there are fewer
Mid(list, pos, length) ==
    SubSeq(list, pos + 1, Min(pos + length, Len(list)))

\* the list the k-th pass of the loop "for (int i = 0; i < len; i += SLICE_SIZE)"
\* gives to addPaths: watch_list.mid(i, i + SLICE_SIZE) with i = (k - 1) * SLICE_SIZE
Slice(watch_list, k) ==
    Mid(watch_list, (k - 1) * SLICE_SIZE, (k - 1) * SLICE_SIZE + SLICE_SIZE)

\* DonePopulating that leaves tree_view as it is (disabled, after PopulateAsync)
DonePopulating_NoEnable(watch_dirs, watch_list) ==
    LET len == Min(Len(watch_list), LIMIT_WATCH_DIRECTORIES)
        passes == (len + SLICE_SIZE - 1) \div SLICE_SIZE
    IN  [watcher |-> (watch_dirs \ watch_dirs)
                        \cup UNION {Ran(Slice(watch_list, k)) : k \in 1..passes},
         slices |-> [k \in 1..passes |-> Len(Slice(watch_list, k))],
         enabled |-> tree_enabled]

\* void GameList::DonePopulating(QStringList watch_list): the watched
\* directories are removed, then every pass of the loop adds its list to the
\* watcher (a set of paths), and tree_view is enabled; "slices" is the length
\* of each list added
DonePopulating(watch_dirs, watch_list) ==
    LET len == Min(Len(watch_list), LIMIT_WATCH_DIRECTORIES)
        passes == (len + SLICE_SIZE - 1) \div SLICE_SIZE
    IN  [watcher |-> (watch_dirs \ watch_dirs)
                        \cup UNION {Ran(Slice(watch_list, k)) : k \in 1..passes},
         slices |-> [k \in 1..passes |-> Len(Slice(watch_list, k))],
         enabled |-> TRUE]

\* UISettings::values.gamedir
GameDir == 1

\* new GameListWorker(vfs, dir_path, deep_scan), connected by PopulateAsync
NewWorker ==
    [pc |-> "queued", stop_processing |-> FALSE, connected |-> TRUE,
     index |-> 0, watch_list |-> << >>, cancelled |-> FALSE,
     processed_after_cancel |-> 0, sent_after_cancel |-> 0]

\* void GameListWorker::Cancel()
Cancel(worker) ==
    [worker EXCEPT !.connected = FALSE,
                   !.stop_processing = TRUE,
                   !.cancelled = TRUE]

\* emit ShouldCancelWorker(): Cancel runs, in the emitting thread, in every
\* worker that still exists (a worker is deleted by the pool after run())
ShouldCancelWorker(ws) ==
    [w \in DOMAIN ws |-> IF ws[w].pc # "done" THEN Cancel(ws[w]) ELSE ws[w]]

\* a worker emits EntryReady or Finished: over a queued connection the signal
\* is posted to the GUI thread, after disconnect() it reaches nobody
Emit(w, signal, argument) ==
    IF workers[w].connected
    THEN events' = Append(events, [signal |-> signal, worker |-> w,
                                   argument |-> argument])
    ELSE UNCHANGED events

\* the worker has handled one more directory entry
Processed(worker) ==
    IF worker.cancelled
    THEN [worker EXCEPT !.processed_after_cancel = @ + 1]
    ELSE worker

\* the worker has emitted one more signal, which reached the GameList if the
\* worker is connected
Sent(worker) ==
    IF worker.cancelled /\ worker.connected
    THEN [worker EXCEPT !.sent_after_cancel = @ + 1]
    ELSE worker

\* void GameList::PopulateAsync: the rows are removed, the workers cancelled and
\* a new worker handed to the thread pool
PopulateAsync ==
    /\ Len(workers) < MaxWorkers
    /\ tree_enabled' = FALSE
    /\ rows' = << >>
    /\ workers' = Append(ShouldCancelWorker(workers), NewWorker)
    /\ UNCHANGED <<events, watcher, done>>
    /\ UNCHANGED <<viewVars, paramVars, geo, cacheVars, drawVars>>

\* the pool starts GameListWorker::run(): stop_processing = false and
\* watch_list.append(dir_path)
RunStart(w) ==
    /\ workers[w].pc = "queued"
    /\ workers' = [workers EXCEPT ![w].pc = "fill",
                                  ![w].stop_processing = FALSE,
                                  ![w].watch_list = Append(@, GameDir),
                                  ![w].index = 0]
    /\ UNCHANGED <<events, rows, watcher, done, tree_enabled>>
    /\ UNCHANGED <<viewVars, paramVars, geo, cacheVars, drawVars>>

\* FillControlMap: the callback of ForeachDirectoryEntry for the next entry
FillEntry(w) ==
    /\ workers[w].pc = "fill"
    /\ workers' =
          IF workers[w].index = NumEntries \/ workers[w].stop_processing
          THEN [workers EXCEPT ![w].pc = "installed"]
          ELSE [workers EXCEPT
                  ![w] = Processed([@ EXCEPT !.index = @ + 1])]
    /\ UNCHANGED <<events, rows, watcher, done, tree_enabled>>
    /\ UNCHANGED <<viewVars, paramVars, geo, cacheVars, drawVars>>

\* AddInstalledTitlesToGameList: EntryReady for the installed title
InstalledTitles(w) ==
    /\ workers[w].pc = "installed"
    /\ Emit(w, "EntryReady", 0)
    /\ workers' = [workers EXCEPT
                     ![w] = [Sent(@) EXCEPT !.pc = "scan", !.index = 0]]
    /\ UNCHANGED <<rows, watcher, done, tree_enabled>>
    /\ UNCHANGED <<viewVars, paramVars, geo, cacheVars, drawVars>>

\* AddFstEntriesToGameList: the callback for the next entry, a game file
ScanEntry(w) ==
    /\ workers[w].pc = "scan"
    /\ IF workers[w].index = NumEntries \/ workers[w].stop_processing
       THEN /\ workers' = [workers EXCEPT ![w].pc = "finish"]
            /\ UNCHANGED events
       ELSE /\ Emit(w, "EntryReady", workers[w].index + 1)
            /\ workers' =
                 [workers EXCEPT
                    ![w] = Sent(Processed([@ EXCEPT !.index = @ + 1]))]
    /\ UNCHANGED <<rows, watcher, done, tree_enabled>>
    /\ UNCHANGED <<viewVars, paramVars, geo, cacheVars, drawVars>>

\* the end of run(): emit Finished(watch_list)
Finish(w) ==
    /\ workers[w].pc = "finish"
    /\ Emit(w, "Finished", workers[w].watch_list)
    /\ workers' = [workers EXCEPT
                     ![w] = [Sent(@) EXCEPT !.pc = "done"]]
    /\ UNCHANGED <<rows, watcher, done, tree_enabled>>
    /\ UNCHANGED <<viewVars, paramVars, geo, cacheVars, drawVars>>

\* the GUI thread's event loop delivers the next queued signal: EntryReady to
\* GameList::AddEntry, Finished to GameList::DonePopulating
DeliverEvent ==
    /\ events # << >>
    /\ events' = Tail(events)
    /\ IF Head(events).signal = "EntryReady"
       THEN /\ rows' = Append(rows, Head(events).worker)
            /\ UNCHANGED <<watcher, done, tree_enabled>>
       ELSE LET r == DonePopulating(watcher, Head(events).argument)
            IN  /\ watcher' = r.watcher
                /\ done' = [op |-> "DonePopulating",
                            length |-> Len(Head(events).argument),
                            first |-> IF Head(events).argument = << >> THEN 0
                                      ELSE Head(events).argument[1],
                            slices |-> r.slices]
                /\ tree_enabled' = r.enabled
                /\ UNCHANGED rows
    /\ UNCHANGED workers
    /\ UNCHANGED <<viewVars, paramVars, geo, cacheVars, drawVars>>

ScanInit ==
    /\ pa = BaseLinear
    /\ pb = BaseLinear
    /\ cmp = NoCmp
    /\ CacheInit

ScanNext ==
    \/ PopulateAsync
    \/ \E w \in DOMAIN workers : RunStart(w)
    \/ \E w \in DOMAIN workers : FillEntry(w)
    \/ \E w \in DOMAIN workers : InstalledTitles(w)
    \/ \E w \in DOMAIN workers : ScanEntry(w)
    \/ \E w \in DOMAIN workers : Finish(w)
    \/ DeliverEvent

SpecScan == ScanInit /\ [][ScanNext]_vars

\* the thread pool runs every worker it was given, and the GUI thread's event
\* loop keeps delivering what is queued
ScanFairness ==
    /\ \A w \in 1..MaxWorkers :
          WF_vars(w \in DOMAIN workers
                    /\ (RunStart(w) \/ FillEntry(w) \/ InstalledTitles(w)
                           \/ ScanEntry(w) \/ Finish(w)))
    /\ WF_vars(DeliverEvent)

SpecScanFair == ScanInit /\ [][ScanNext]_vars /\ ScanFairness

(***************************************************************************)
(* The watcher: scans of directory trees of several sizes finish and their *)
(* watch lists reach DonePopulating.                                       *)
(***************************************************************************)
\* how many directories the scanned trees have
WatchLengths == {0, 1, 25, 26, 51, 76, 100, 4999, 5000, 5100}

\* the watch list a scan of a tree ends with: the tree's directories, the
\* game directory first
WatchList(length) == [i \in 1..length |-> GameDir + i - 1]

WatchInit ==
    /\ pa = BaseLinear
    /\ pb = BaseLinear
    /\ cmp = NoCmp
    /\ CacheInit

\* a worker's run() ends: Finished(watch_list) is queued for the GUI thread
ScanFinished(watch_list) ==
    /\ events = << >>
    /\ events' = <<[signal |-> "Finished", worker |-> 0,
                    argument |-> watch_list]>>
    /\ UNCHANGED <<workers, rows, watcher, done, tree_enabled>>
    /\ UNCHANGED <<viewVars, paramVars, geo, cacheVars, drawVars>>

WatchNext ==
    \/ \E length \in WatchLengths : ScanFinished(WatchList(length))
    \/ DeliverEvent

SpecWatch == WatchInit /\ [][WatchNext]_vars

(***************************************************************************)
(* Claims about the descriptor functions (checked under SpecParams).       *)
(***************************************************************************)
\* the data members that describe a surface's shape
ShapeFields == {"pixel_format", "component_type", "type", "width", "height",
                "depth", "target", "is_tiled", "block_width", "block_height",
                "block_depth", "tile_width_spacing"}

\* the data members SurfaceReserveKey::Create clears
KeyIgnoredFields == {"gpu_addr", "identity", "rt"}

\* the equalities C3 names, with the component type among them
C3_StatedCondition(a, b) ==
    /\ a.pixel_format = b.pixel_format
    /\ a.component_type = b.component_type
    /\ a.width = b.width
    /\ a.height = b.height
    /\ a.target = b.target
    /\ a.depth = b.depth
    /\ a.is_tiled = b.is_tiled
    /\ (a.is_tiled /\ b.is_tiled) =>
          /\ a.block_height = b.block_height
          /\ a.block_depth = b.block_depth
          /\ a.tile_width_spacing = b.tile_width_spacing

\* C3 as stated: IsCompatibleSurface is true iff pixel format, component type,
\* width, height, target, depth and tiling flag are equal and, when tiled, block
\* height, block depth and tile width spacing are equal too.
C3_Original == cmp.done => (cmp.compatible <=> C3_StatedCondition(pa, pb))

\* C3 amended: IsCompatibleSurface is true iff pixel format, surface type (the
\* member "type"), width, height, target, depth and tiling flag are equal and,
\* when tiled, block height, block depth and tile width spacing are equal too;
\* no other member, the component type included, influences the result.
C3_Compatible == cmp.done => (cmp.compatible <=> StatedCompatible(pa, pb))

\* two descriptors of different component type were compared and found compatible
C3_Witness ==
    /\ cmp.done
    /\ cmp.compatible
    /\ pa.component_type # pb.component_type
    /\ pa.is_tiled

\* C4: descriptors that differ only in gpu_addr, identity or the rt block have
\* equal reserve keys, and descriptors that differ in a shape member have
\* different reserve keys.
C4_ReserveKey ==
    cmp.done =>
        /\ (DiffFields(pa, pb) \subseteq KeyIgnoredFields) => cmp.keys_equal
        /\ (DiffFields(pa, pb) \cap ShapeFields # {}) => ~cmp.keys_equal

\* two descriptors at different guest addresses and of different render-target
\* index were compared and their keys are equal
C4_Witness ==
    /\ cmp.done
    /\ cmp.keys_equal
    /\ pa.gpu_addr # pb.gpu_addr
    /\ pa.rt.index # pb.rt.index

(***************************************************************************)
(* Claims about the cache (checked under Spec) and about the Reserve Pool  *)
(* (checked under SpecReserve).                                            *)
(***************************************************************************)
\* the live entries at a cache address
LiveAt(addr) == {id \in registered : surfaces[id].cache_addr = addr}

\* C1: no cache entry is at the same time live in the address-indexed store and
\* held in the Reserve Pool.
C1_ExclusiveOwnership == registered \cap Ran(surface_reserve) = {}

\* a recreation has left the new entry live and the old entry in the pool
C1_Witness ==
    /\ last.op = "GetSurface"
    /\ last.path = "recreate"
    /\ last.surface \in registered
    /\ last.old \in Ran(surface_reserve)

\* C2 as stated: an entry's reinterpreted flag is set if and only if the
\* Reinterpretation Tracker holds an interval mapped to that entry.
C2_FlagIffInterval ==
    \A id \in 1..Len(surfaces) :
        surfaces[id].reinterpreted <=> id \in Ran(reinterpreted_surfaces)

\* C5: a GetSurface that directly follows a GetSurface for the same address and
\* a compatible descriptor returns the entry the first call returned, constructs
\* no entry, unregisters no entry, and leaves that entry the only one the store
\* holds for the address.
C5_RepeatReturnsSameEntry ==
    (last.op = "GetSurface" /\ last.repeat) =>
        /\ last.surface = last.prev
        /\ last.created = 0
        /\ last.removed = {}
        /\ LiveAt(last.params.host_ptr) = {last.surface}

\* the second of two calls in a row, made with another guest address for the
\* same memory, returned the first call's entry
C5_Witness ==
    /\ last.op = "GetSurface"
    /\ last.repeat
    /\ last.surface = last.prev
    /\ last.params.gpu_addr # surfaces[last.surface].params.gpu_addr

\* C6: when GetSurface finds at the address an entry whose descriptor is
\* incompatible with the requested one, the old entry leaves the store and a
\* new entry with the requested descriptor is registered at the address, with
\* preserve_contents true or false; the old contents are migrated exactly when
\* preserve_contents is true.
C6_RecreateReplaces ==
    (last.op = "GetSurface" /\ last.found # 0 /\ ~last.fits) =>
        /\ last.found \notin registered
        /\ last.surface # last.found
        /\ last.surface \in registered
        /\ surfaces[last.surface].params = last.params
        /\ surfaces[last.surface].cache_addr = last.params.host_ptr
        /\ last.preserve => last.copied_from = last.found
        /\ ~last.preserve => last.copied_from = 0

\* an incompatible entry was replaced without preserving its contents
C6_Witness ==
    /\ last.op = "GetSurface"
    /\ last.found # 0
    /\ ~last.fits
    /\ ~last.preserve
    /\ last.found \notin registered
    /\ last.surface \in registered

\* C7: a TryTake that hits removes the entry from the pool: the key is no longer
\* in the pool, the entry is under no key of the pool, and a TryTake for the
\* same key that directly follows (no Store in between) returns nothing.
C7_TakeRemoves ==
    last.op = "TryTake" =>
        /\ last.surface = last.reserved
        /\ last.surface # 0 =>
              /\ SurfaceReserveKey_Create(last.params) \notin DOMAIN surface_reserve
              /\ last.surface \notin Ran(surface_reserve)
        /\ last.repeat => last.surface = 0

\* a TryTake directly after a TryTake that hit under the same key, for another
\* guest address
C7_Witness ==
    /\ last.op = "TryTake"
    /\ last.repeat
    /\ last.prev # 0
    /\ last.surface = 0

\* C8: the pool holds at most one entry per key and no entry under two keys;
\* the entry under a key is the one most recently stored under it; a Store
\* under a key already present replaces the old entry, which the pool no
\* longer holds.
C8_LastStoredWins ==
    /\ \A k \in DOMAIN surface_reserve :
          /\ k \in DOMAIN last_stored
          /\ surface_reserve[k] = last_stored[k]
    /\ Cardinality(Ran(surface_reserve)) = Cardinality(DOMAIN surface_reserve)
    /\ last.op = "Store" =>
          /\ SurfaceReserveKey_Create(last.params) \in DOMAIN surface_reserve
          /\ surface_reserve[SurfaceReserveKey_Create(last.params)] = last.surface
          /\ (last.old # 0 /\ last.old # last.surface) =>
                last.old \notin Ran(surface_reserve)

\* a Store has replaced another entry held under the same key
C8_Witness ==
    /\ last.op = "Store"
    /\ last.old # 0
    /\ last.old # last.surface
    /\ last.surface \in Ran(surface_reserve)

C10_ReturnedEntryIsLive ==
    (last.op = "GetSurface" /\ IsValid(last.params)) =>
        /\ last.surface # 0
        /\ last.surface \in registered
        /\ surfaces[last.surface].cache_addr = last.params.host_ptr
        /\ IsCompatibleSurface(surfaces[last.surface].params, last.params)
        /\ LiveAt(last.params.host_ptr) = {last.surface}

\* a recreation that reused a pooled entry returned it live at the address
C10_Witness ==
    /\ last.op = "GetSurface"
    /\ last.path = "recreate"
    /\ last.reserved # 0
    /\ last.surface = last.reserved
    /\ LiveAt(last.params.host_ptr) = {last.surface}

\* C11: when an entry is registered with the tracker (RegisterReinterpretSurface,
\* the entry being live in the store) and the very next operation unregisters
\* it, the tracker holds no interval mapped to the entry and the store does not
\* hold the entry.
C11_RegisterThenUnregister ==
    (last.op = "Unregister" /\ last.prev = last.surface) =>
        /\ last.surface \notin Ran(reinterpreted_surfaces)
        /\ last.surface \notin registered

\* an entry was registered with the tracker and unregistered right after, while
\* another entry stays live
C11_Witness ==
    /\ last.op = "Unregister"
    /\ last.prev = last.surface
    /\ surfaces[last.surface].reinterpreted
    /\ registered # {}

\* the addresses two entries share
Overlap(a, b) == Range(surfaces[a]) \cap Range(surfaces[b])

\* a PartialReinterpretSurface(t, i) that failed changed neither the tracker
\* nor an entry
C12_FailureChangesNothing ==
    /\ reinterpreted_surfaces' = reinterpreted_surfaces
    /\ surfaces' = surfaces

ReinterpretedBy(addrs, id) ==
    {CollideOnReinterpretedSurface(Cur, x) : x \in addrs} \ {0, id}

Reloads(l) ==
    \/ l.path = "hit"
    \/ l.preserve /\ l.path \in {"reserve", "fresh"}

C17_FailureConfined ==
    [][last'.op = "GuestAccessFailure" =>
         /\ surfaces'[last'.surface].must_reload
         /\ surfaces' = [surfaces EXCEPT ![last'.surface].must_reload = TRUE]
         /\ registered' = registered
         /\ surface_reserve' = surface_reserve
         /\ reinterpreted_surfaces' = reinterpreted_surfaces]_vars

\* a load failed for one live entry while a reinterpretation is registered and
\* another live entry is not marked
C17_Witness ==
    /\ last.op = "GuestAccessFailure"
    /\ surfaces[last.surface].must_reload
    /\ \E o \in registered \ {last.surface} : ~surfaces[o].must_reload
    /\ reinterpreted_surfaces # EmptyMap

\* the registered entries whose address range contains an address
LiveContaining(addr) == {id \in registered : addr \in Range(surfaces[id])}

\* C15: TryFindFramebufferSurface changes nothing (no entry, not the store, the
\* Reserve Pool or the tracker); it returns nothing when no registered entry's
\* range contains the address, and otherwise a registered entry whose range
\* contains it.
C15_LookupReadOnly ==
    [][last'.op = "TryFindFramebuffer" =>
         /\ surfaces' = surfaces
         /\ registered' = registered
         /\ surface_reserve' = surface_reserve
         /\ reinterpreted_surfaces' = reinterpreted_surfaces
         /\ LiveContaining(last'.addr) = {} => last'.surface = 0
         /\ LiveContaining(last'.addr) # {} =>
                last'.surface \in LiveContaining(last'.addr)]_vars

\* a lookup at an address inside a live entry, not its first byte, returned
\* that entry while a pooled entry's range holds the address too
C15_Witness ==
    /\ last.op = "TryFindFramebuffer"
    /\ last.surface \in registered
    /\ last.addr # surfaces[last.surface].cache_addr
    /\ \E o \in Ran(surface_reserve) : last.addr \in Range(surfaces[o])

C18_FatalExactlyOutside ==
    geo.op = "Describe" =>
        /\ geo.surface_target_name.fatal <=> pa.target \notin SurfaceTargets
        /\ geo.target_name.fatal <=> pa.target \notin SurfaceTargets
        /\ geo.class_name.fatal <=> pa.identity \notin SurfaceClasses

\* x >> m as a number: x halved m times
Halved(x, m) == ShiftRightBy(x, m)

\* C19 as stated: for every mip level m, those at or beyond the width of a u32
\* included, MipWidth(m) = max(1, width >> m), MipHeight(m) = max(1, height >> m)
\* and MipDepth(m) = depth when layered, else max(1, depth >> m); each is
\* non-increasing in m.
C19_MipDimensions ==
    geo.op = "MipDimensions" =>
        /\ geo.mip_width = Max(1, Halved(pa.width, geo.mip_level))
        /\ geo.mip_height = Max(1, Halved(pa.height, geo.mip_level))
        /\ geo.mip_depth = IF pa.is_layered THEN pa.depth
                           ELSE Max(1, Halved(pa.depth, geo.mip_level))
        /\ geo.next_width <= geo.mip_width
        /\ geo.next_height <= geo.mip_height
        /\ geo.next_depth <= geo.mip_depth

\* the uncompressed tiled layout size of a descriptor
UncompressedTiledSize(params) ==
    CalculateSize(TRUE, GetBytesPerPixel(params.pixel_format), params.width,
                  params.height, params.depth, params.block_height,
                  params.block_depth)

C21_UnregisterExact ==
    [][\A x \in DOMAIN reinterpreted_surfaces :
          (/\ reinterpreted_surfaces[x] \in registered
           /\ reinterpreted_surfaces[x] \in registered') =>
                /\ x \in DOMAIN reinterpreted_surfaces'
                /\ reinterpreted_surfaces'[x] = reinterpreted_surfaces[x]]_vars

\* C22: every entry the Reinterpretation Tracker maps an address to is live in
\* the address-indexed store: no entry has left the store while a collision
\* query still returns it.
C22_TrackedIsLive ==
    \A x \in DOMAIN reinterpreted_surfaces :
        CollideOnReinterpretedSurface(Cur, x) \in registered

\* an entry registered with the tracker has left the store, and the tracker
\* still holds the interval of another entry
C22_Witness ==
    /\ last.op \in {"Unregister", "Evict"}
    /\ surfaces[last.surface].reinterpreted
    /\ last.surface \notin registered
    /\ reinterpreted_surfaces # EmptyMap

\* C23: a collision query at x returns an entry registered at address A with
\* memory size S only when A < x < A + S - 1: an entry never collides at its
\* own address, and an entry of at most two bytes collides nowhere.
C23_OpenInterval ==
    /\ \A x \in DOMAIN reinterpreted_surfaces :
          LET object == surfaces[CollideOnReinterpretedSurface(Cur, x)]
          IN  /\ object.cache_addr < x
              /\ x < object.cache_addr + object.memory_size - 1
    /\ \A id \in 1..Len(surfaces) :
          /\ id \in registered =>
                CollideOnReinterpretedSurface(Cur, surfaces[id].cache_addr) # id
          /\ (id \in registered /\ surfaces[id].memory_size <= 2) =>
                id \notin Ran(reinterpreted_surfaces)

\* a two-byte entry has just been registered with the tracker, which holds
\* the interval of a larger entry and nothing of the two-byte one
C23_Witness ==
    /\ last.op = "PartialReinterpret"
    /\ last.reinterpret = "success"
    /\ surfaces[last.surface].memory_size = 2
    /\ surfaces[last.surface].reinterpreted
    /\ reinterpreted_surfaces # EmptyMap
    /\ last.surface \notin Ran(reinterpreted_surfaces)

\* C28: an entry's reinterpreted flag is never cleared: no operation, Unregister
\* included, takes an entry from flagged to unflagged; and an operation that
\* unregisters a flagged entry (one flagged while it was live before, too)
\* leaves no tracker mapping inside that entry's interval.
C28_FlagMonotone ==
    [][/\ \A id \in 1..Len(surfaces) :
            surfaces[id].reinterpreted => surfaces'[id].reinterpreted
       /\ \A id \in registered \ registered' :
            surfaces[id].reinterpreted =>
                DOMAIN reinterpreted_surfaces'
                    \cap GetReinterpretInterval(surfaces[id]) = {}]_vars

\* an entry flagged before it left the store is live again, taken from the
\* Reserve Pool for another address by a call that did not flag it
C28_Witness ==
    /\ last.op = "GetSurface"
    /\ last.path = "reserve"
    /\ last.reinterpret = "none"
    /\ last.surface \in registered
    /\ surfaces[last.surface].reinterpreted
    /\ surfaces[last.surface].cache_addr = 3

(***************************************************************************)
(* Claims about block sizes and row alignment (checked under SpecBlocks).  *)
(***************************************************************************)
\* the number of blocks of h rows that a rows need: the least n with n * h >= a
BlocksNeeded(a, h) == CHOOSE n \in 0..a : n * h >= a /\ (n - 1) * h < a

\* C24: MipBlockHeight(0) is the declared block height; for a mip level m > 0
\* the result bh is what halving from 16 reaches while blocks_in_y <= 4 * bh
\* and bh > 1, blocks_in_y being MipHeight(m) over the format's default block
\* height, rounded up: bh is one of 1, 2, 4, 8, 16, it is 16 only when
\* blocks_in_y > 64, bh > 1 implies blocks_in_y > 4 * bh, and bh < 16 was
\* reached from 2 * bh, so blocks_in_y <= 8 * bh.
C24_MipBlockHeight ==
    geo.op = "BlockSizes" =>
        LET bh == geo.mip_block_height
            blocks_in_y ==
                BlocksNeeded(geo.mip_height, GetDefaultBlockHeight(pa.pixel_format))
        IN  IF geo.mip_level = 0
            THEN bh = pa.block_height
            ELSE /\ bh \in {1, 2, 4, 8, 16}
                 /\ bh = 16 => blocks_in_y > 64
                 /\ bh > 1 => blocks_in_y > 4 * bh
                 /\ bh < 16 => blocks_in_y <= 8 * bh

\* a mip level above 0 of a block-compressed surface got block height 16
C24_Witness ==
    /\ geo.op = "BlockSizes"
    /\ geo.mip_level = 1
    /\ pa.pixel_format = 2
    /\ geo.mip_height = 260
    /\ geo.mip_block_height = 16

\* C25: MipBlockDepth(0) is the declared block depth; for m > 0 a layered
\* surface yields 1 and a non-layered one the value halving from 32 reaches
\* while 2 * MipDepth(m) <= candidate and candidate > 1, except that 16 is
\* returned when the candidate stays 32 and MipBlockHeight(m) >= 4: the result
\* is a power of two in 1..32, and 32 only when MipDepth(m) > 16 and
\* MipBlockHeight(m) < 4.
C25_MipBlockDepth ==
    geo.op = "BlockSizes" =>
        LET bd == geo.mip_block_depth
            stays == 2 * geo.mip_depth > 32
        IN  IF geo.mip_level = 0 THEN bd = pa.block_depth
            ELSE IF pa.is_layered THEN bd = 1
            ELSE /\ bd \in {1, 2, 4, 8, 16, 32}
                 /\ bd = 32 <=> (geo.mip_depth > 16 /\ geo.mip_block_height < 4)
                 /\ (stays /\ geo.mip_block_height >= 4) => bd = 16
                 /\ ~stays => /\ 2 * geo.mip_depth > bd \/ bd = 1
                              /\ 2 * geo.mip_depth <= 2 * bd

\* a deep mip level of a non-layered surface whose block height is 4 or more
\* got block depth 16 instead of 32
C25_Witness ==
    /\ geo.op = "BlockSizes"
    /\ geo.mip_level = 1
    /\ ~pa.is_layered
    /\ geo.mip_depth = 20
    /\ geo.mip_block_height >= 4
    /\ geo.mip_block_depth = 16

\* 2^k divides the u32 value
DividesWord(k, value) ==
    IF k <= 16 THEN value.lo % (2^k) = 0
    ELSE value.lo = 0 /\ value.hi % (2^(k - 16)) = 0

\* C26 as stated: for every descriptor and mip level RowAlign(m) is a power of
\* two that divides MipWidth(m) * bytes_per_pixel (the u32 product) while twice
\* that power does not, the products that wrap to 0 included.
C26_RowAlign ==
    geo.op = "RowAlign" =>
        LET product == Mul32(geo.mip_width, GetBytesPerPixel(pa.pixel_format))
        IN  \E k \in 0..(U32Bits - 1) :
                /\ geo.row_align = PowerOfTwo(k)
                /\ DividesWord(k, product)
                /\ ~DividesWord(k + 1, product)

(***************************************************************************)
(* Claims about texture views (checked under SpecView).                    *)
(***************************************************************************)
\* C27: Texture(as_array) returns the primary texture exactly when as_array
\* equals the entry's is_array and the alternate view otherwise; the view does
\* not exist before the first such request, is made once and reused, uses the
\* storage of the primary texture, and exists in the GL context exactly while
\* its entry does: every texture object belongs to one living entry.
C27_AlternateView ==
    /\ view.ret.op = "Texture" =>
          LET entry == view.entries[view.ret.entry]
          IN  /\ view.ret.handle # 0
              /\ view.ret.handle = entry.texture
                    <=> view.ret.as_array = entry.is_array
              /\ view.ret.as_array # entry.is_array =>
                    view.ret.handle = entry.discrepant_view
              /\ view.ret.made =>
                    /\ view.ret.as_array # entry.is_array
                    /\ entry.discrepant_view = view.ret.handle
    /\ \A e \in 1..Len(view.entries) :
          LET entry == view.entries[e]
          IN  /\ entry.discrepant_view # 0 => entry.mismatched
              /\ entry.views_made <= 1
              /\ entry.mismatched => entry.views_made = 1
              /\ entry.alive =>
                    /\ entry.texture \in DOMAIN view.textures
                    /\ entry.discrepant_view # 0 =>
                          /\ entry.discrepant_view \in DOMAIN view.textures
                          /\ entry.discrepant_view # entry.texture
                          /\ view.textures[entry.discrepant_view]
                                = view.textures[entry.texture]
    /\ \A h \in DOMAIN view.textures :
          Cardinality({e \in 1..Len(view.entries) :
                          /\ view.entries[e].alive
                          /\ h \in {view.entries[e].texture,
                                    view.entries[e].discrepant_view}}) = 1

\* the alternate view of an entry has just been returned by a call that did
\* not have to make it, while another entry that had a view has been destroyed
C27_Witness ==
    /\ view.ret.op = "Texture"
    /\ ~view.ret.made
    /\ view.ret.as_array # view.entries[view.ret.entry].is_array
    /\ view.ret.handle = view.entries[view.ret.entry].discrepant_view
    /\ \E e \in 1..Len(view.entries) :
          /\ ~view.entries[e].alive
          /\ view.entries[e].mismatched

(***************************************************************************)
(* Claims about the game list (checked under SpecScan and SpecWatch).      *)
(***************************************************************************)
\* C29 as stated: under every interleaving of Cancel with run(), Cancel before
\* the pool has started run() included, a worker that Cancel has reached
\* handles no further directory entry and sends no further EntryReady or
\* Finished to the game list.
C29_CancelWithoutDelay ==
    \A w \in DOMAIN workers :
        workers[w].cancelled =>
            /\ workers[w].processed_after_cancel = 0
            /\ workers[w].sent_after_cancel = 0

\* the paths at positions 1..n of the watch list DonePopulating was given
FirstPaths(n) == {done.first + i - 1 : i \in 1..Min(n, done.length)}

\* C30 as stated: after DonePopulating(watch_list) the watcher watches at most
\* LIMIT_WATCH_DIRECTORIES directories, all among the first
\* LIMIT_WATCH_DIRECTORIES paths of watch_list, and every addPaths call was
\* given at most SLICE_SIZE paths, whatever the length of the list.
C30_WatcherCapped ==
    done.op = "DonePopulating" =>
        /\ Cardinality(watcher) <= LIMIT_WATCH_DIRECTORIES
        /\ watcher \subseteq FirstPaths(LIMIT_WATCH_DIRECTORIES)
        /\ \A k \in DOMAIN done.slices : done.slices[k] <= SLICE_SIZE

\* C31 as stated: after PopulateAsync has cleared the rows and started a new
\* worker, the list model holds only rows produced by that newest worker: no
\* EntryReady of an earlier worker, one already queued when the worker was
\* cancelled included, is appended after the rows were cleared.
C31_RowsFromNewestWorker ==
    \A i \in DOMAIN rows : rows[i] = Len(workers)

\* C32: whenever PopulateAsync has disabled the tree view, DonePopulating
\* eventually enables it again, when the workers and the event loop are
\* scheduled fairly, whatever number of PopulateAsync calls come in between.
C32_EventuallyEnabled ==
    (~tree_enabled) ~> (tree_enabled /\ done.op = "DonePopulating")

\* DonePopulating has enabled the tree view that a second PopulateAsync, which
\* cancelled the first worker, had disabled
C32_Witness ==
    /\ tree_enabled
    /\ done.op = "DonePopulating"
    /\ Len(workers) = 2
    /\ workers[1].cancelled
    /\ workers[2].pc = "done"
    /\ events = << >>

====
